---- MODULE Spec2Model ----
(***************************************************************************)
(* Prefix Web Search: a GNOME Shell search provider that turns the terms   *)
(* typed in the overview into a URL and opens it with xdg-open.            *)
(*                                                                         *)
(* The repository holds two revisions of the extension:                    *)
(*   src/extension.js      - the engine table maps a prefix to its URL     *)
(*                           template; a prefix needs a further term.      *)
(*   src/unnamed/part_000  - the engine table maps a prefix to an object   *)
(*                           {url, empty_query_url}; a lone prefix counts. *)
(* The variable build says which revision runs; the definitions that       *)
(* differ between the two carry the suffix _part000 for the second.        *)
(*                                                                         *)
(* Strings are TLA+ strings, read character by character with SubSeq, so   *)
(* that lower-casing, percent-encoding, the URL pattern and the template   *)
(* substitution are computed as the JavaScript runtime computes them.      *)
(* The alphabet is printable ASCII without the backquote.                  *)
(***************************************************************************)
EXTENDS Integers, Sequences, FiniteSets, TLC

----------------------------------------------------------------------------
(* JavaScript strings                                                      *)

\* ASCII 32..95 and 97..126, in code order.
AsciiLow == " !\"#$%&'()*+,-./0123456789:;<=>?@ABCDEFGHIJKLMNOPQRSTUVWXYZ[\\]^_"
AsciiHigh == "abcdefghijklmnopqrstuvwxyz{|}~"

CharAt(s, i) == SubSeq(s, i, i)

CharsOf(s) == {CharAt(s, i) : i \in 1..Len(s)}

Alphabet == CharsOf(AsciiLow) \cup CharsOf(AsciiHigh)

\* The code unit of a character.
charCodeAt == [c \in Alphabet |->
    IF c \in CharsOf(AsciiLow)
    THEN 31 + (CHOOSE i \in 1..Len(AsciiLow) : CharAt(AsciiLow, i) = c)
    ELSE 96 + (CHOOSE i \in 1..Len(AsciiHigh) : CharAt(AsciiHigh, i) = c)]

\* The character of a code unit (String.fromCharCode).
fromCharCode(n) == IF n < 96 THEN CharAt(AsciiLow, n - 31) ELSE CharAt(AsciiHigh, n - 96)

UpperLetters == CharsOf("ABCDEFGHIJKLMNOPQRSTUVWXYZ")
LowerLetters == CharsOf("abcdefghijklmnopqrstuvwxyz")
Digits == CharsOf("0123456789")

\* String.prototype.toLowerCase: A..Z move to a..z, everything else stays.
lowerChar == [c \in Alphabet |->
    IF c \in UpperLetters THEN fromCharCode(charCodeAt[c] + 32) ELSE c]

RECURSIVE toLowerCase(_)
toLowerCase(s) ==
    IF s = "" THEN "" ELSE lowerChar[CharAt(s, 1)] \o toLowerCase(SubSeq(s, 2, Len(s)))

\* encodeURIComponent leaves A-Z a-z 0-9 - _ . ! ~ * ' ( ) alone and writes
\* every other character as % and the two upper-case hex digits of its byte.
UriUnreserved == UpperLetters \cup LowerLetters \cup Digits \cup CharsOf("-_.!~*'()")

HexDigits == "0123456789ABCDEF"

encodeChar == [c \in Alphabet |->
    IF c \in UriUnreserved THEN c
    ELSE "%" \o CharAt(HexDigits, (charCodeAt[c] \div 16) + 1)
             \o CharAt(HexDigits, (charCodeAt[c] % 16) + 1)]

RECURSIVE encodeURIComponent(_)
encodeURIComponent(s) ==
    IF s = "" THEN "" ELSE encodeChar[CharAt(s, 1)] \o encodeURIComponent(SubSeq(s, 2, Len(s)))

\* Array.prototype.join.
RECURSIVE join(_, _)
join(arr, sep) ==
    IF Len(arr) = 0 THEN ""
    ELSE IF Len(arr) = 1 THEN arr[1]
    ELSE arr[1] \o sep \o join(Tail(arr), sep)

\* Array.prototype.map(encodeURIComponent).
mapEncode(arr) == [i \in 1..Len(arr) |-> encodeURIComponent(arr[i])]

\* Array.prototype.slice(1).
slice1(arr) == SubSeq(arr, 2, Len(arr))

\* Whether p occurs in s at position i.
occursAt(s, p, i) == i + Len(p) - 1 <= Len(s) /\ SubSeq(s, i, i + Len(p) - 1) = p

startsWith(s, p) == occursAt(s, p, 1)

\* String.prototype.indexOf, 1-based; 0 when pat does not occur.
indexOf(s, pat) ==
    LET hits == {i \in 1..Len(s) : occursAt(s, pat, i)}
    IN IF hits = {} THEN 0 ELSE CHOOSE i \in hits : \A j \in hits : i <= j

\* String.prototype.replace with a string pattern: the first occurrence only.
\* The replacement is always an encodeURIComponent output joined with "+", which
\* holds no "$", so no replacement pattern ($&, $1, ...) is ever expanded.
replace(s, pat, rep) ==
    LET i == indexOf(s, pat)
    IN IF i = 0 THEN s
       ELSE SubSeq(s, 1, i - 1) \o rep \o SubSeq(s, i + Len(pat), Len(s))

----------------------------------------------------------------------------
\* The URL pattern
\*   /(https?:\/\/)?(www\.)?[-a-zA-Z0-9@:%._\+~#=]{1,256}\.[a-zA-Z0-9()]{1,6}\b([-a-zA-Z0-9()@:%_\+.~#?&\/\/=]*)/
\* matched as a backtracking engine matches it: optional groups and quantifiers
\* are greedy and give characters back in order.  A position is the index of the
\* next character to read; 0 stands for "no match".

HostMax == 256
TldMax == 6

AlphaNum == UpperLetters \cup LowerLetters \cup Digits
HostClass == AlphaNum \cup CharsOf("-@:%._+~#=")
TldClass == AlphaNum \cup CharsOf("()")
PathClass == AlphaNum \cup CharsOf("-()@:%_+.~#?&/=")
WordClass == AlphaNum \cup {"_"}

\* How many characters from position i on lie in class, at most max of them.
RECURSIVE runLength(_, _, _, _)
runLength(s, i, class, max) ==
    IF max = 0 \/ i > Len(s) \/ CharAt(s, i) \notin class THEN 0
    ELSE 1 + runLength(s, i + 1, class, max - 1)

isWordAt(s, i) == i >= 1 /\ i <= Len(s) /\ CharAt(s, i) \in WordClass

\* \b before position i.
wordBoundary(s, i) == isWordAt(s, i - 1) # isWordAt(s, i)

\* [host]{1,256} \. [tld]{1,6} \b (path*) from position i: the end of the first
\* match in backtracking order (longest host first, then longest tld).
matchHost(s, i) ==
    LET kmax == runLength(s, i, HostClass, HostMax)
        tlds(k) == {m \in 1..runLength(s, i + k + 1, TldClass, TldMax) :
                        wordBoundary(s, i + k + 1 + m)}
        ks == {k \in 1..kmax : i + k <= Len(s) /\ CharAt(s, i + k) = "." /\ tlds(k) # {}}
    IN IF ks = {} THEN 0
       ELSE LET k == CHOOSE a \in ks : \A b \in ks : a >= b
                m == CHOOSE a \in tlds(k) : \A b \in tlds(k) : a >= b
                e == i + k + 1 + m
            IN e + runLength(s, e, PathClass, Len(s))

\* (www\.)? then the host part: with the group first, without it on failure.
matchWww(s, i) ==
    LET with == IF occursAt(s, "www.", i) THEN matchHost(s, i + 4) ELSE 0
    IN IF with # 0 THEN with ELSE matchHost(s, i)

\* (https?:\/\/)? then the rest, from position i.
matchAt(s, i) ==
    LET scheme == IF occursAt(s, "https://", i) THEN 8
                  ELSE IF occursAt(s, "http://", i) THEN 7 ELSE 0
        with == IF scheme # 0 THEN matchWww(s, i + scheme) ELSE 0
    IN IF with # 0 THEN with ELSE matchWww(s, i)

\* urlRegex.test(s) && s.match(urlRegex)?.[0]?.length === s.length
\* exec returns the leftmost match.  A match that starts after the first character
\* is shorter than s, so the test holds exactly when the pattern matches at the
\* first character and that match ends with s.
isDirectUrl(s) ==
    LET e == matchAt(s, 1)
    IN e # 0 /\ e - 1 = Len(s)

\* String.prototype.toUpperCase: a..z move to A..Z.
upperChar == [c \in Alphabet |->
    IF c \in LowerLetters THEN fromCharCode(charCodeAt[c] - 32) ELSE c]

RECURSIVE toUpperCase(_)
toUpperCase(s) ==
    IF s = "" THEN "" ELSE upperChar[CharAt(s, 1)] \o toUpperCase(SubSeq(s, 2, Len(s)))

----------------------------------------------------------------------------
(* Bounds and inputs                                                       *)

\* The longest term list the host passes.
MaxTerms == 2

\* First terms: prefixes in both letter cases, plain words, direct URLs without
\* and with either scheme.
Heads == {"gg", "GG", "bil", "cats", "hello", "a.io", "http://a.io", "https://a.io"}

\* Further terms are taken, in order, from this phrase.
Phrase == <<"cats", "world!">>

\* The subsequences of q of at most n elements.
RECURSIVE SubSeqsUpTo(_, _)
SubSeqsUpTo(q, n) ==
    IF n <= 0 \/ Len(q) = 0 THEN {<<>>}
    ELSE SubSeqsUpTo(Tail(q), n) \cup {<<Head(q)>> \o r : r \in SubSeqsUpTo(Tail(q), n - 1)}

TermLists == {<<>>} \cup {<<h>> \o t : h \in Heads, t \in SubSeqsUpTo(Phrase, MaxTerms - 1)}

ResultIds == {"direct-url", "custom-search"}
IdLists == {<<>>, <<"direct-url">>, <<"custom-search">>, <<"custom-search", "direct-url">>}

Builds == {"extension.js", "part_000"}

\* The value of a missing property or array element, and the outcome of a call
\* that throws a TypeError: neither is a string over Alphabet.
Undefined == "\tundefined"
TypeError == "\tTypeError"

----------------------------------------------------------------------------
(* search_engines.json                                                     *)

GoogleTemplate == "https://www.google.com/search?q={query}"

\* What the extension directory may hold: no file, a file that is no JSON, a
\* JSON object instead of an array, and three arrays of engine entries.
ConfigFiles == {"missing", "malformed", "object", "main", "upper", "empty"}

\* JSON.parse of the readable, well-formed files.
JSONparse(file) ==
    CASE file = "object" -> [kind |-> "object"]
      [] file = "main" -> [kind |-> "array", items |-> <<
             [prefix |-> "gg", url |-> GoogleTemplate],
             [prefix |-> "bil", url |-> "https://search.bilibili.com/all?keyword={query}",
              empty_query_url |-> "https://www.bilibili.com"] >>]
      [] file = "upper" -> [kind |-> "array", items |-> <<
             [prefix |-> "GG", url |-> "https://g.co/?q={query}"],
             [prefix |-> "_default_", url |-> "https://d.co/?q={query}"] >>]
      [] file = "empty" -> [kind |-> "array", items |-> <<>>]

\* Variant of the catch block's table without the gg entry.
fallbackConfig_defaultOnly == [kind |-> "array", items |-> <<
    [prefix |-> "_default_", url |-> GoogleTemplate] >>]

\* The catch block's table.
fallbackConfig == [kind |-> "array", items |-> <<
    [prefix |-> "gg", url |-> GoogleTemplate],
    [prefix |-> "_default_", url |-> GoogleTemplate] >>]

\* load_contents throws on a missing file, JSON.parse on a malformed one.
loadThrows(file) == file \in {"missing", "malformed"}

\* _loadSearchEnginesConfig: the value left in _searchEnginesConfig.
loadSearchEnginesConfig(file) ==
    IF loadThrows(file) THEN fallbackConfig ELSE JSONparse(file)

----------------------------------------------------------------------------
(* PrefixWebSearchProvider: the constructor                                *)

\* Map.prototype.set.
mapSet(map, key, value) == (key :> value) @@ map

has(map, key) == key \in DOMAIN map

\* extension.js: the value stored under a prefix is the URL template.
RECURSIVE populate(_, _)
populate(map, items) ==
    IF Len(items) = 0 THEN map
    ELSE populate(mapSet(map, Head(items).prefix, Head(items).url), Tail(items))

\* Variant that copies the template alone.
engineObject_urlOnly(engine) == [url |-> engine.url]

\* part_000: the value stored is {url, empty_query_url}; the second property is
\* left out here when the entry has none (it reads as undefined).
engineObject(engine) ==
    IF "empty_query_url" \in DOMAIN engine
    THEN [url |-> engine.url, empty_query_url |-> engine.empty_query_url]
    ELSE [url |-> engine.url]

RECURSIVE populate_part000(_, _)
populate_part000(map, items) ==
    IF Len(items) = 0 THEN map
    ELSE populate_part000(mapSet(map, Head(items).prefix, engineObject(Head(items))),
                          Tail(items))

\* Variant that adds the fallback to an empty table only.
ensureDefault_whenEmpty(map) ==
    IF DOMAIN map = {} THEN mapSet(map, "_default_", GoogleTemplate) ELSE map

ensureDefault(map) ==
    IF ~has(map, "_default_") THEN mapSet(map, "_default_", GoogleTemplate) ELSE map

ensureDefault_part000(map) ==
    IF ~has(map, "_default_") THEN mapSet(map, "_default_", [url |-> GoogleTemplate]) ELSE map

\* searchEnginesConfig.forEach is no function unless the value is an array.
constructorThrows(config) == config.kind # "array"

\* new PrefixWebSearchProvider(extension, searchEnginesConfig)
newProvider(b, config) ==
    [kind |-> "provider",
     _lastParsedTerms |-> <<>>,
     _searchEnginesMap |->
        IF b = "extension.js" THEN ensureDefault(populate(<<>>, config.items))
        ELSE ensureDefault_part000(populate_part000(<<>>, config.items))]

----------------------------------------------------------------------------
(* PrefixWebSearchProvider.activateResult                                  *)

\* termsToUse[0]?.toLowerCase()
firstTerm(terms) == IF Len(terms) = 0 THEN Undefined ELSE toLowerCase(terms[1])

\* Variant without the "termsToUse.length > 1" test.
usesPrefix_anyLength(map, terms) == has(map, firstTerm(terms))

\* extension.js: a prefix counts only with a further term.
usesPrefix(map, terms) == has(map, firstTerm(terms)) /\ Len(terms) > 1

urlTemplate(map, terms) ==
    IF usesPrefix(map, terms) THEN map[firstTerm(terms)] ELSE map["_default_"]

\* Variants with the query cut wrongly: the prefix kept in it, or the first term
\* always dropped.
actualSearchTerms_keepsPrefix(map, terms) == terms

actualSearchTerms_alwaysSliced(map, terms) == slice1(terms)

actualSearchTerms(map, terms) ==
    IF usesPrefix(map, terms) THEN slice1(terms) ELSE terms

\* Variant that joins the terms as typed.
searchQueryParam_unencoded(terms) == join(terms, "+")

\* actualSearchTerms.map(encodeURIComponent).join('+')
searchQueryParam(terms) == join(mapEncode(terms), "+")

\* Map.prototype.get of the chosen key gives undefined: the property read or
\* method call on it throws.
engineMissing(map, chosen) == chosen = Undefined \/ ~has(map, chosen)

\* The else branch of "if (isDirectUrl)" in extension.js.
searchUrl(map, terms) ==
    IF engineMissing(map, IF usesPrefix(map, terms) THEN firstTerm(terms) ELSE "_default_")
    THEN TypeError
    ELSE replace(urlTemplate(map, terms), "{query}",
                 searchQueryParam(actualSearchTerms(map, terms)))

\* part_000: a prefix counts on its own too.
usesPrefix_part000(map, terms) == has(map, firstTerm(terms))

engineConfig_part000(map, terms) ==
    IF usesPrefix_part000(map, terms) THEN map[firstTerm(terms)] ELSE map["_default_"]

actualSearchTerms_part000(map, terms) ==
    IF usesPrefix_part000(map, terms) THEN slice1(terms) ELSE terms

\* engineConfig.empty_query_url is truthy: present and not the empty string.
hasEmptyQueryUrl(engineConfig) ==
    "empty_query_url" \in DOMAIN engineConfig /\ engineConfig.empty_query_url # ""

\* The else branch of "if (isDirectUrl)" in part_000.
searchUrl_part000(map, terms) ==
    IF engineMissing(map, IF usesPrefix_part000(map, terms) THEN firstTerm(terms)
                          ELSE "_default_")
    THEN TypeError
    ELSE LET engineConfig == engineConfig_part000(map, terms)
             rest == actualSearchTerms_part000(map, terms)
         IN IF Len(rest) = 0 /\ hasEmptyQueryUrl(engineConfig)
            THEN engineConfig.empty_query_url
            ELSE replace(engineConfig.url, "{query}", searchQueryParam(rest))

\* targetUrl after the first if/else.
targetUrl(b, map, terms) ==
    LET fullInputString == join(terms, " ")
    IN IF isDirectUrl(fullInputString) THEN fullInputString
       ELSE IF b = "extension.js" THEN searchUrl(map, terms)
       ELSE searchUrl_part000(map, terms)

\* Variant that leaves the search URL unquoted.
launchCommand_unquoted(target, direct) ==
    IF direct
    THEN IF startsWith(target, "http://") \/ startsWith(target, "https://")
         THEN "xdg-open " \o target
         ELSE "xdg-open " \o "https://" \o target
    ELSE "xdg-open " \o target

\* cmd: what GLib.spawn_command_line_async receives.
launchCommand(target, direct) ==
    IF direct
    THEN IF startsWith(target, "http://") \/ startsWith(target, "https://")
         THEN "xdg-open " \o target
         ELSE "xdg-open " \o "https://" \o target
    ELSE "xdg-open " \o "\"" \o target \o "\""

\* activateResult from its first line to the spawn: the command launched, or
\* TypeError when the call throws before it spawns anything.
spawnedCommand(b, map, termsToUse) ==
    LET target == targetUrl(b, map, termsToUse)
    IN IF target = TypeError THEN TypeError
       ELSE launchCommand(target, isDirectUrl(join(termsToUse, " ")))

----------------------------------------------------------------------------
(* PrefixWebSearchProvider.getInitialResultSet and getResultMetas          *)

\* The table test of the second branch of the identifier chain.
prefixBranch(b, map, terms) ==
    IF b = "extension.js" THEN usesPrefix(map, terms) ELSE usesPrefix_part000(map, terms)

\* Variant without the early return for an empty list.
resultSet_noEarlyReturn(b, map, terms) ==
    LET direct == isDirectUrl(join(terms, " "))
    IN [settled |-> "resolved",
        value |-> IF direct THEN <<"direct-url">>
                  ELSE IF prefixBranch(b, map, terms) THEN <<"custom-search">>
                  ELSE IF Len(terms) > 0 THEN <<"custom-search">>
                  ELSE <<>>,
        classified |-> TRUE,
        lookedUp |-> ~direct]

\* The promise's outcome, with the steps taken on the way: whether the URL
\* pattern was applied and whether the table was consulted.
resultSet(b, map, terms) ==
    IF Len(terms) = 0
    THEN [settled |-> "resolved", value |-> <<>>, classified |-> FALSE, lookedUp |-> FALSE]
    ELSE LET direct == isDirectUrl(join(terms, " "))
         IN [settled |-> "resolved",
             value |-> IF direct THEN <<"direct-url">>
                       ELSE IF prefixBranch(b, map, terms) THEN <<"custom-search">>
                       ELSE IF Len(terms) > 0 THEN <<"custom-search">>
                       ELSE <<>>,
             classified |-> TRUE,
             lookedUp |-> ~direct]

\* One metadata object of extension.js (createIcon is attached, never called).
resultMeta(map, currentTerms, id) ==
    IF id = "direct-url"
    THEN [id |-> id, name |-> "Open URL",
          description |-> "Open \"" \o join(currentTerms, " ") \o "\""]
    ELSE IF id = "custom-search"
    THEN LET hasValidPrefix == usesPrefix(map, currentTerms)
             found == IF hasValidPrefix THEN firstTerm(currentTerms) ELSE "_default_"
             engineName == IF found = "" THEN "Web" ELSE found
             displayQuery == IF hasValidPrefix THEN join(slice1(currentTerms), " ")
                             ELSE join(currentTerms, " ")
         IN [id |-> id,
             name |-> IF hasValidPrefix THEN "Search " \o toUpperCase(engineName)
                      ELSE "Prefix Web Search",
             description |-> "Search for \"" \o displayQuery \o "\" on "
                             \o toUpperCase(engineName)]
    ELSE [id |-> id, name |-> "", description |-> ""]

\* One metadata object of part_000.
resultMeta_part000(id) ==
    [id |-> id,
     name |-> IF id = "direct-url" THEN "Open URL"
              ELSE IF id = "custom-search" THEN "Prefix Web Search" ELSE "",
     description |-> ""]

\* const currentTerms = this._lastParsedTerms
currentTermsOf(provider) == provider._lastParsedTerms

resultMetas(b, map, currentTerms, resultIds) ==
    [i \in 1..Len(resultIds) |->
        IF b = "extension.js" THEN resultMeta(map, currentTerms, resultIds[i])
        ELSE resultMeta_part000(resultIds[i])]

\* Variant that stores the terms after the empty-list return.
storeTerms_afterEmptyCheck(provider, terms) ==
    IF Len(terms) = 0 THEN provider ELSE [provider EXCEPT !._lastParsedTerms = terms]

\* this._lastParsedTerms = terms
storeTerms(provider, terms) == [provider EXCEPT !._lastParsedTerms = terms]

----------------------------------------------------------------------------
(* The engine tables a provider can hold, and the two pure computations    *)
(* above evaluated once for each of them and each term list.               *)

engineTables(b) ==
    {newProvider(b, loadSearchEnginesConfig(file))._searchEnginesMap :
        file \in {f \in ConfigFiles : ~constructorThrows(loadSearchEnginesConfig(f))}}

spawnedCommandOf == [b \in Builds |-> [map \in engineTables(b) |->
    [terms \in TermLists |-> spawnedCommand(b, map, terms)]]]

resultSetOf == [b \in Builds |-> [map \in engineTables(b) |->
    [terms \in TermLists |-> resultSet(b, map, terms)]]]

----------------------------------------------------------------------------
(* State                                                                   *)

VARIABLES
    build,                  \* which revision of the extension is installed
    configFile,             \* search_engines.json in the extension directory
    _searchEnginesConfig,   \* PrefixWebSearchExtension._searchEnginesConfig
    _textDecoder,           \* PrefixWebSearchExtension._textDecoder
    _provider,              \* PrefixWebSearchExtension._provider, with its fields
    hostProviders,          \* providers registered with the search controller
    lastRequest,            \* the most recent result-set request of this provider
    last                    \* the most recent call and what it produced

vars == <<build, configFile, _searchEnginesConfig, _textDecoder, _provider,
          hostProviders, lastRequest, last>>

Null == [kind |-> "null"]

Init ==
    /\ build \in Builds
    /\ configFile \in ConfigFiles
    /\ _searchEnginesConfig = Null
    /\ _textDecoder = "null"
    /\ _provider = Null
    /\ hostProviders = 0
    /\ lastRequest = [made |-> FALSE]
    /\ last = [op |-> "none"]

----------------------------------------------------------------------------
(* PrefixWebSearchExtension                                                *)

\* The user replaces search_engines.json.  The file is read by enable() alone,
\* and only when no configuration is loaded, so a change made while a provider
\* is registered is seen exactly as one made after it is removed.
writeConfigFile(file) ==
    /\ _provider = Null
    /\ file # configFile
    /\ configFile' = file
    /\ last' = [op |-> "writeConfigFile"]
    /\ UNCHANGED <<build, _searchEnginesConfig, _textDecoder, _provider,
                   hostProviders, lastRequest>>

\* The configuration enable() works with after its first if.
configAfterLoad ==
    IF _searchEnginesConfig = Null THEN loadSearchEnginesConfig(configFile)
    ELSE _searchEnginesConfig

\* Variant without the "_provider === null" guard: every call builds and adds.
enable_alwaysBuilds ==
    LET config == configAfterLoad
        throws == constructorThrows(config)
    IN /\ _searchEnginesConfig' = config
       /\ _textDecoder' = IF _searchEnginesConfig = Null THEN "TextDecoder" ELSE _textDecoder
       /\ _provider' = IF ~throws THEN newProvider(build, config) ELSE _provider
       /\ hostProviders' = IF ~throws THEN hostProviders + 1 ELSE hostProviders
       /\ lastRequest' = IF ~throws THEN [made |-> FALSE] ELSE lastRequest
       /\ last' = [op |-> "enable", loaded |-> _searchEnginesConfig = Null,
                   threw |-> throws, built |-> ~throws]
       /\ UNCHANGED <<build, configFile>>

enable ==
    LET config == configAfterLoad
        builds == _provider = Null
        throws == builds /\ constructorThrows(config)
    IN /\ _searchEnginesConfig' = config
       /\ _textDecoder' = IF _searchEnginesConfig = Null THEN "TextDecoder" ELSE _textDecoder
       /\ _provider' = IF builds /\ ~throws THEN newProvider(build, config) ELSE _provider
       /\ hostProviders' = IF builds /\ ~throws THEN hostProviders + 1 ELSE hostProviders
       /\ lastRequest' = IF builds /\ ~throws THEN [made |-> FALSE] ELSE lastRequest
       /\ last' = [op |-> "enable", loaded |-> _searchEnginesConfig = Null,
                   threw |-> throws, built |-> builds /\ ~throws]
       /\ UNCHANGED <<build, configFile>>

disable ==
    /\ _provider' = Null
    /\ hostProviders' = IF _provider # Null THEN hostProviders - 1 ELSE hostProviders
    /\ _searchEnginesConfig' = Null
    /\ _textDecoder' = "null"
    /\ lastRequest' = [made |-> FALSE]
    /\ last' = [op |-> "disable"]
    /\ UNCHANGED <<build, configFile>>

----------------------------------------------------------------------------
(* The host's calls on the registered provider.  Each runs to completion:  *)
(* the promise executors are synchronous and nothing awaits.               *)

\* Variant that resolves the provider's last-seen terms, as getResultMetas does.
activateResultCommand_fromSlot(b, provider, resultId, termsToUse) ==
    spawnedCommandOf[b][provider._searchEnginesMap][provider._lastParsedTerms]

\* The command activateResult(resultId, termsToUse) spawns on a provider: the
\* body reads termsToUse and this._searchEnginesMap; resultId is not read, and
\* this._lastParsedTerms is only copied into a log line.
activateResultCommand(b, provider, resultId, termsToUse) ==
    spawnedCommandOf[b][provider._searchEnginesMap][termsToUse]

activateResult(resultId, termsToUse) ==
    /\ _provider # Null
    /\ last' = [op |-> "activateResult", resultId |-> resultId, terms |-> termsToUse,
                cmd |-> activateResultCommand(build, _provider, resultId, termsToUse)]
    /\ UNCHANGED <<build, configFile, _searchEnginesConfig, _textDecoder, _provider,
                   hostProviders, lastRequest>>

resultSetCall(op, terms) ==
    /\ _provider # Null
    /\ _provider' = storeTerms(_provider, terms)
    /\ lastRequest' = [made |-> TRUE, terms |-> terms]
    /\ last' = [op |-> op, terms |-> terms,
                result |-> resultSetOf[build][_provider._searchEnginesMap][terms]]
    /\ UNCHANGED <<build, configFile, _searchEnginesConfig, _textDecoder, hostProviders>>

getInitialResultSet(terms) == resultSetCall("getInitialResultSet", terms)

\* results is ignored: the call delegates with terms alone.
getSubsearchResultSet(results, terms) == resultSetCall("getSubsearchResultSet", terms)

getResultMetas(resultIds) ==
    /\ _provider # Null
    /\ LET currentTerms == currentTermsOf(_provider)
       IN last' = [op |-> "getResultMetas", resultIds |-> resultIds,
                   currentTerms |-> currentTerms,
                   result |-> [settled |-> "resolved",
                               value |-> resultMetas(build, _provider._searchEnginesMap,
                                                     currentTerms, resultIds)]]
    /\ UNCHANGED <<build, configFile, _searchEnginesConfig, _textDecoder, _provider,
                   hostProviders, lastRequest>>

Next ==
    \/ \E file \in ConfigFiles : writeConfigFile(file)
    \/ enable
    \/ disable
    \/ \E resultId \in ResultIds, terms \in TermLists : activateResult(resultId, terms)
    \/ \E terms \in TermLists : getInitialResultSet(terms)
    \/ \E results \in {<<"custom-search">>}, terms \in TermLists :
           getSubsearchResultSet(results, terms)
    \/ \E resultIds \in IdLists : getResultMetas(resultIds)

Spec == Init /\ [][Next]_vars

----------------------------------------------------------------------------
(* Properties                                                              *)

activated == last.op = "activateResult"

\* The engine table of the registered provider.
table == _provider._searchEnginesMap

\* The URL template stored under a key of the table.
templateAt(key) == IF build = "extension.js" THEN table[key] ELSE table[key].url

\* The opener followed by a URL in one pair of double quotes.
quoted(url) == "xdg-open \"" \o url \o "\""

nonDirect(terms) == ~isDirectUrl(join(terms, " "))

\* The terms percent-encoded one by one and joined with "+".
plusJoined(terms) == join([i \in 1..Len(terms) |-> encodeURIComponent(terms[i])], "+")

\* C1: an activation with a non-direct term list whose lowercased first term is
\* a key of the table, and with at least one further term, launches that key's
\* template with {query} replaced by the encoded terms after the first; for
\* ["gg", "cats"] under the Google template that is ...search?q=cats.
C1_PrefixQueryIsRest ==
    (activated /\ Len(last.terms) > 1 /\ nonDirect(last.terms)
        /\ has(table, toLowerCase(last.terms[1])))
    => /\ last.cmd = quoted(replace(templateAt(toLowerCase(last.terms[1])), "{query}",
                                    plusJoined(SubSeq(last.terms, 2, Len(last.terms)))))
       /\ (last.terms = <<"gg", "cats">> /\ has(table, "gg")
                /\ templateAt("gg") = GoogleTemplate
            => last.cmd = "xdg-open \"https://www.google.com/search?q=cats\"")

C1_Witness ==
    /\ activated
    /\ last.terms = <<"gg", "cats">>
    /\ has(table, "gg")
    /\ last.cmd = "xdg-open \"https://www.google.com/search?q=cats\""

\* C2: an activation with a non-empty, non-direct term list whose lowercased
\* first term is no key of the table launches the _default_ template with {query}
\* replaced by all the encoded terms; for ["cats"] under the Google default that
\* is ...search?q=cats.
C2_DefaultQueryIsAllTerms ==
    (activated /\ Len(last.terms) > 0 /\ nonDirect(last.terms)
        /\ ~has(table, toLowerCase(last.terms[1])))
    => /\ last.cmd = quoted(replace(templateAt("_default_"), "{query}",
                                    plusJoined(last.terms)))
       /\ (last.terms = <<"cats">> /\ templateAt("_default_") = GoogleTemplate
            => last.cmd = "xdg-open \"https://www.google.com/search?q=cats\"")

C2_Witness ==
    /\ activated
    /\ last.terms = <<"cats">>
    /\ templateAt("_default_") = GoogleTemplate
    /\ last.cmd = "xdg-open \"https://www.google.com/search?q=cats\""

\* The entries of the loaded configuration with the given prefix that define an
\* empty-query URL.
emptyQueryEntries(prefix) ==
    {i \in 1..Len(_searchEnginesConfig.items) :
        /\ _searchEnginesConfig.items[i].prefix = prefix
        /\ "empty_query_url" \in DOMAIN _searchEnginesConfig.items[i]}

configuredEntry(key) ==
    LET at == {i \in 1..Len(_searchEnginesConfig.items) :
                  _searchEnginesConfig.items[i].prefix = key}
    IN _searchEnginesConfig.items[CHOOSE i \in at : \A j \in at : i >= j]

hasScheme(str) == occursAt(str, "http://", 1) \/ occursAt(str, "https://", 1)

\* The search URL the installed revision constructs for non-direct terms.
constructedUrl(terms) ==
    IF build = "extension.js" THEN searchUrl(table, terms) ELSE searchUrl_part000(table, terms)

\* C4: the launched command is the opener followed by the joined input as it
\* stands when that is a direct URL with a scheme, by https:// and the joined
\* input when it is a direct URL without one, both unquoted, and by the
\* constructed search URL in one pair of double quotes otherwise.
C4_CommandForms ==
    activated =>
        LET input == join(last.terms, " ")
        IN /\ (isDirectUrl(input) /\ hasScheme(input)) => last.cmd = "xdg-open " \o input
           /\ (isDirectUrl(input) /\ ~hasScheme(input))
                => last.cmd = "xdg-open https://" \o input
           /\ ~isDirectUrl(input)
                => /\ last.cmd = "xdg-open \"" \o constructedUrl(last.terms) \o "\""
                   /\ CharAt(last.cmd, 10) = "\""
                   /\ CharAt(last.cmd, Len(last.cmd)) = "\""
           /\ last.terms = <<"a.io">> => last.cmd = "xdg-open https://a.io"
           /\ last.terms = <<"http://a.io">> => last.cmd = "xdg-open http://a.io"
           /\ last.terms = <<"https://a.io">> => last.cmd = "xdg-open https://a.io"

C4_Witness ==
    /\ activated
    /\ last.terms = <<"a.io">>
    /\ last.cmd = "xdg-open https://a.io"

\* The terms that form the query of a non-direct list of two or more terms.
queryTerms(terms) ==
    IF has(table, toLowerCase(terms[1])) THEN SubSeq(terms, 2, Len(terms)) ELSE terms

\* The template the query of such a list is substituted into.
queryTemplate(terms) ==
    IF has(table, toLowerCase(terms[1])) THEN templateAt(toLowerCase(terms[1]))
    ELSE templateAt("_default_")

\* C5 as stated, on its example: the query terms ["hello", "world!"] are
\* substituted as hello+world%21.
C5_ExclamationEscaped ==
    (activated /\ last.terms = <<"hello", "world!">> /\ ~has(table, "hello")
        /\ templateAt("_default_") = GoogleTemplate)
    => last.cmd = "xdg-open \"https://www.google.com/search?q=hello+world%21\""

\* C5 (amended): for a query of two or more terms, the string standing where the
\* template has {query} is the terms, each passed through encodeURIComponent,
\* joined with "+" in their order, and the rest of the template is unchanged;
\* ["hello", "world!"] gives hello+world! ("!" is left as it is) and
\* ["http://a.io", "cats"] gives http%3A%2F%2Fa.io+cats.
C5_QueryEncodedAndPlusJoined ==
    (activated /\ Len(last.terms) > 1 /\ nonDirect(last.terms)
        /\ Len(queryTerms(last.terms)) > 1)
    => LET tmpl == queryTemplate(last.terms)
           at == indexOf(tmpl, "{query}")
           query == plusJoined(queryTerms(last.terms))
       IN /\ at # 0
          /\ Len(last.cmd) = 11 + Len(tmpl) - Len("{query}") + Len(query)
          /\ SubSeq(last.cmd, 10 + at, 10 + at + Len(query) - 1) = query
          /\ SubSeq(last.cmd, 11, 10 + at - 1) = SubSeq(tmpl, 1, at - 1)
          /\ (last.terms = <<"hello", "world!">> /\ tmpl = GoogleTemplate
                => last.cmd = "xdg-open \"https://www.google.com/search?q=hello+world!\"")
          /\ (last.terms = <<"http://a.io", "cats">> /\ tmpl = GoogleTemplate
                => last.cmd =
                     "xdg-open \"https://www.google.com/search?q=http%3A%2F%2Fa.io+cats\"")

C5_Witness ==
    /\ activated
    /\ last.terms = <<"http://a.io", "cats">>
    /\ last.cmd = "xdg-open \"https://www.google.com/search?q=http%3A%2F%2Fa.io+cats\""

resultSetRequested == last.op \in {"getInitialResultSet", "getSubsearchResultSet"}

\* C6: a result-set request with an empty term list, direct or through
\* getSubsearchResultSet, resolves with no identifiers, whatever the provider
\* holds, without applying the URL pattern or consulting the table.
C6_EmptyTermsResolveEmpty ==
    (resultSetRequested /\ last.terms = <<>>)
    => /\ last.result.settled = "resolved"
       /\ last.result.value = <<>>
       /\ ~last.result.classified
       /\ ~last.result.lookedUp

C6_Witness ==
    /\ last.op = "getSubsearchResultSet"
    /\ last.terms = <<>>
    /\ last.result.settled = "resolved"
    /\ last.result.value = <<>>
    /\ DOMAIN table # {"_default_"}

\* C7: the table of a constructed provider always has the key _default_, and
\* when the configuration it was built from has no such entry the key holds the
\* Google search template.
C7_DefaultEntryAlways ==
    _provider # Null
    => /\ has(table, "_default_")
       /\ (\A i \in 1..Len(_searchEnginesConfig.items) :
               _searchEnginesConfig.items[i].prefix # "_default_")
            => templateAt("_default_") = GoogleTemplate

C7_Witness ==
    /\ _provider # Null
    /\ _searchEnginesConfig.items # <<>>
    /\ \A i \in 1..Len(_searchEnginesConfig.items) :
           _searchEnginesConfig.items[i].prefix # "_default_"
    /\ templateAt("_default_") = GoogleTemplate
    /\ activated

builtInTable == <<
    [prefix |-> "gg", url |-> "https://www.google.com/search?q={query}"],
    [prefix |-> "_default_", url |-> "https://www.google.com/search?q={query}"] >>

\* What C8 promises of an enable() call.
fallbackProviderRegistered ==
    /\ ~last.threw
    /\ _searchEnginesConfig = [kind |-> "array", items |-> builtInTable]
    /\ _provider # Null
    /\ hostProviders = 1
    /\ DOMAIN table = {"gg", "_default_"}
    /\ templateAt("gg") = "https://www.google.com/search?q={query}"
    /\ templateAt("_default_") = "https://www.google.com/search?q={query}"

C9_PrefixCaseInsensitive ==
    (activated /\ Len(last.terms) > 1 /\ nonDirect(last.terms))
    => \A i \in 1..Len(_searchEnginesConfig.items) :
           toLowerCase(_searchEnginesConfig.items[i].prefix) = toLowerCase(last.terms[1])
           => last.cmd = quoted(replace(_searchEnginesConfig.items[i].url, "{query}",
                                        plusJoined(SubSeq(last.terms, 2, Len(last.terms)))))

\* C10: once a result-set request was made, the slot holds the terms of the most
\* recent one, an empty list included; getResultMetas reads exactly those terms
\* and leaves the slot as it is, and in extension.js the description of a
\* direct-url result quotes them.
C10_SlotIsLatestRequest ==
    /\ lastRequest.made => _provider._lastParsedTerms = lastRequest.terms
    /\ (last.op = "getResultMetas" /\ lastRequest.made)
        => /\ last.currentTerms = lastRequest.terms
           /\ \A i \in 1..Len(last.resultIds) :
                  (build = "extension.js" /\ last.resultIds[i] = "direct-url")
                  => last.result.value[i].description
                       = "Open \"" \o join(lastRequest.terms, " ") \o "\""
    /\ (last.op = "getResultMetas" /\ ~lastRequest.made) => last.currentTerms = <<>>

C10_Witness ==
    /\ last.op = "getResultMetas"
    /\ lastRequest.made
    /\ lastRequest.terms = <<>>
    /\ last.currentTerms = <<>>
    /\ last.resultIds = <<"direct-url">>

\* At most one provider is registered, and one is exactly when the slot is set.
oneProviderIffSlot ==
    /\ hostProviders \in {0, 1}
    /\ hostProviders = 1 <=> _provider # Null

\* What a load leaves in _searchEnginesConfig for a file.
configOnDisk(file) ==
    IF file \in {"missing", "malformed"} THEN [kind |-> "array", items |-> builtInTable]
    ELSE JSONparse(file)

\* The template a table holds under a key.
templateIn(map, key) == IF build = "extension.js" THEN map[key] ELSE map[key].url

\* The slot holds a provider that has seen no request, whose table is the
\* entries of the configuration (the last one of each prefix) and _default_.
freshProviderFrom(provider, config) ==
    /\ provider # Null
    /\ provider._lastParsedTerms = <<>>
    /\ DOMAIN provider._searchEnginesMap
         = {config.items[i].prefix : i \in 1..Len(config.items)} \cup {"_default_"}
    /\ \A i \in 1..Len(config.items) :
           (\A j \in (i + 1)..Len(config.items) :
                config.items[j].prefix # config.items[i].prefix)
           => templateIn(provider._searchEnginesMap, config.items[i].prefix)
                = config.items[i].url

\* enable() on an extension that holds a provider changes neither the provider
\* (its table and its slot stay) nor the registration nor the configuration.
reenableKeepsProvider ==
    (last'.op = "enable" /\ _provider # Null)
    => /\ _provider' = _provider
       /\ hostProviders' = hostProviders
       /\ _searchEnginesConfig' = _searchEnginesConfig

\* disable() unregisters and clears the slot and the configuration.
disableClears ==
    last'.op = "disable"
    => /\ _provider' = Null
       /\ hostProviders' = 0
       /\ _searchEnginesConfig' = Null

\* enable() with no configuration held (the state disable() leaves) reads the
\* file as it is now.
enableReloads ==
    (last'.op = "enable" /\ _searchEnginesConfig = Null)
    => _searchEnginesConfig' = configOnDisk(configFile)

lonePrefixActivated ==
    /\ activated
    /\ Len(last.terms) = 1
    /\ nonDirect(last.terms)
    /\ has(table, toLowerCase(last.terms[1]))

\* The command of a default-engine query made of the single term.
defaultQueryCommand ==
    quoted(replace(templateAt("_default_"), "{query}",
                   encodeURIComponent(last.terms[1])))

withSlot(terms) == [_provider EXCEPT !._lastParsedTerms = terms]

\* The command is of the direct-URL form (no quote after "xdg-open ").
directForm(cmd) == SubSeq(cmd, 10, 10) # "\""

\* C13: the command an activation spawns is the one any activation of the same
\* terms on the same table spawns, whatever identifier is passed and whatever
\* terms the last-seen slot holds, so a query listed after the one activated
\* does not change the URL opened; and for a non-empty term list the command
\* is of the direct-URL form exactly when getInitialResultSet answers
\* ["direct-url"] for that list, and of the quoted search form exactly when it
\* answers ["custom-search"].
C13_CommandFromTermsAndTableOnly ==
    activated
    => /\ \A resultId \in ResultIds, slot \in TermLists :
              activateResultCommand(build, withSlot(slot), resultId, last.terms)
                = last.cmd
       /\ (last.terms = <<"gg", "cats">> /\ has(table, "gg")
                /\ templateAt("gg") = GoogleTemplate
            => last.cmd = "xdg-open \"https://www.google.com/search?q=cats\"")
       /\ Len(last.terms) > 0
            => LET ids == resultSet(build, table, last.terms).value
               IN /\ ids \in {<<"direct-url">>, <<"custom-search">>}
                  /\ directForm(last.cmd) <=> ids = <<"direct-url">>
                  /\ ~directForm(last.cmd) <=> ids = <<"custom-search">>

\* ["gg", "cats"] was activated under the identifier direct-url after another
\* query (a URL) had been listed, and the search for cats was opened.
C13_Witness ==
    /\ activated
    /\ last.resultId = "direct-url"
    /\ last.terms = <<"gg", "cats">>
    /\ lastRequest.made
    /\ _provider._lastParsedTerms = <<"https://a.io">>
    /\ last.cmd = "xdg-open \"https://www.google.com/search?q=cats\""

====
